---------------------------- MODULE Spec2Model ----------------------------
(***************************************************************************)
(* httpstat (src/main.go): the request cycle controller (visit), the trace *)
(* collector (the httptrace.ClientTrace callbacks of one exchange), the    *)
(* header display comparator (headers.Less) and the diagram renderer       *)
(* (printTemplate).                                                        *)
(*                                                                         *)
(* Four specifications share this module, one per component:               *)
(*   Spec          visit: the -n repeat loop and the redirect recursion    *)
(*   SpecTrace     the lifecycle callbacks and the Timing they fill        *)
(*   SpecLess      headers.Less over a slice of header names               *)
(*   SpecTemplate  printTemplate over the https and http templates         *)
(* A specification leaves the variables of the other components at their  *)
(* idle values.                                                            *)
(***************************************************************************)
EXTENDS Integers, Sequences, FiniteSets, TLC

VARIABLES
    \* ---- visit (request cycle controller) ----
    numRequests,        \* -n flag                                (main.go:93)
    followRedirects,    \* -L flag                                (main.go:80)
    redirectsFollowed,  \* package-level redirect counter         (main.go:97)
    stack,              \* call stack of visit: <<[url, i]>>, Head = running call
    pc,                 \* position of the running call: "loop" | "handle" | "done" | "fatal"
    resp,               \* response of the exchange being handled (main.go:385)
    fatal,              \* which log.Fatalf ended the run, or "none"
    server,             \* environment: what the servers answer (fixed for a run)
    issued,             \* observable: requests sent so far, per URL
    rendered,           \* observable: reports printed so far
    lastReport,         \* observable: the report printed last
    followable,         \* observable: responses so far that -L can follow
    calls               \* observable: requests sent and reports printed by each
                        \* running call of visit (and by the finished top-level call)

VARIABLES
    \* ---- one call of visit seen from the trace callbacks ----
    scheme,             \* url.Scheme of the call: "http" | "https"
    iter,               \* loop variable i of main.go:336
    now,                \* the monotonic clock, in ticks
    tStart, tDNSStart, tConnectStart, tTLSStart, tConnected, tTTFB,
                        \* the time.Time locals of main.go:341 (0: the zero Time)
    report,             \* the Report local of main.go:342 (Timing and Address)
    phase,              \* how far client.Do has come in the exchange
    attempts,           \* the dialer's connection attempts of the exchange
    idleConn,           \* the transport holds a kept-alive connection
    hops,               \* calls of visit made so far to follow a redirect
    fired,              \* observable: callbacks run in this exchange
    writes,             \* observable: assignments to each report field in this exchange
    printed             \* observable: connection fields that were non-zero in the
                        \* report printed before this one

VARIABLES
    \* ---- headers (the header display comparator) ----
    hdrs,               \* the slice h of type headers: header names
    lessArgs,           \* observable: the arguments <<i, j>> of the last call of Less
    lessOut             \* observable: what that call returned

VARIABLES
    \* ---- printTemplate ----
    urlScheme,          \* url.Scheme, which selects the template
    timing,             \* report.Timing, the argument of printTemplate
    noColor,            \* color.NoColor: colour is off
    stdout,             \* what print has written: a sequence of bytes
    tstate              \* "idle", "ready", "printed" or "panicked"

ctlVars == <<numRequests, followRedirects, redirectsFollowed, stack, pc, resp,
             fatal, server, issued, rendered, lastReport, followable, calls>>

traceVars == <<scheme, iter, now, tStart, tDNSStart, tConnectStart, tTLSStart,
               tConnected, tTTFB, report, phase, attempts, idleConn, hops, fired,
               writes, printed>>

lessVars == <<hdrs, lessArgs, lessOut>>

tmplVars == <<urlScheme, timing, noColor, stdout, tstate>>

vars == <<ctlVars, traceVars, lessVars, tmplVars>>

-----------------------------------------------------------------------------
(* Bounds of the model.                                                    *)

MaxRequests == 2        \* -n ranges over 1..MaxRequests
MaxHops == 1            \* redirect hops followed in the trace model
MaxClock == 5           \* last tick of the clock
MaxStep == 2            \* ticks that may pass before one reading of the clock
TicksPerMs == 2         \* clock resolution: ticks per millisecond
NumHeaders == 3         \* length of the header name slice

(* Program constants.                                                      *)

maxRedirects == 10

(* time.Now().Sub(t) saturates at the largest Duration when t is the zero  *)
(* Time: 9223372036854 whole milliseconds.  That is more than an integer   *)
(* of the model checker holds; the largest one it holds stands for it, and *)
(* like it exceeds every difference of two clock readings.                 *)
maxDurationMs == 2147483647

-----------------------------------------------------------------------------
(***************************************************************************)
(* visit: main.go:277-452                                                  *)
(***************************************************************************)

Fields == {"DNS", "TCP", "TLS", "Server", "Transfer",
           "Lookup", "Connect", "PreTransfer", "StartTransfer", "Total", "Address"}

(* The zero Report: every Timing field 0, Address "" (0 here).             *)
ZeroReport == [f \in Fields |-> 0]

(* var report Report, declared in the loop body: a new zero Report in      *)
(* every iteration.                                                        *)
StaleReport == report
NewReport == ZeroReport

Racers == {"primary", "fallback"}

(* The trace variables while no exchange has begun.                        *)
TraceIdle ==
    /\ scheme = "http"
    /\ iter = 0
    /\ now = 1
    /\ tStart = 0 /\ tDNSStart = 0 /\ tConnectStart = 0
    /\ tTLSStart = 0 /\ tConnected = 0 /\ tTTFB = 0
    /\ report = ZeroReport
    /\ phase = "idle"
    /\ attempts = [r \in Racers |-> "none"]
    /\ idleConn = FALSE
    /\ hops = 0
    /\ fired = {}
    /\ writes = [f \in Fields |-> 0]
    /\ printed = {}

(* The comparator's variables while no header is being compared.          *)
LessIdle ==
    /\ hdrs = <<>>
    /\ lessArgs = <<0, 0>>
    /\ lessOut = FALSE

(* The fields of Timing (main.go:41-53).                                   *)
TimingFields == {"DNS", "TCP", "TLS", "Server", "Transfer", "Lookup", "Connect", "PreTransfer", "StartTransfer", "Total"}

(* The template's variables while nothing is being rendered.               *)
TemplateIdle ==
    /\ urlScheme = "none"
    /\ timing = [f \in TimingFields |-> 0]
    /\ noColor = TRUE
    /\ stdout = <<>>
    /\ tstate = "idle"

URLs == {"A", "B"}
InitialURL == "A"

NoResp == [status |-> 0, loc |-> "none"]

(* What a server may answer: a status line and a Location header, which is *)
(* absent ("none"), unparsable ("bad") or resolves to a URL; status 0      *)
(* stands for an exchange that fails in the transport.                     *)
Responses ==
    { [status |-> 0,   loc |-> "none"],
      [status |-> 200, loc |-> "none"],
      [status |-> 299, loc |-> "B"],
      [status |-> 400, loc |-> "A"],
      [status |-> 300, loc |-> "none"],
      [status |-> 399, loc |-> "bad"],
      [status |-> 300, loc |-> "A"],
      [status |-> 399, loc |-> "B"] }

(* The servers of a run: each URL answers its first request with one       *)
(* response and every later request with another.                          *)
Servers == [URLs -> [first : Responses, later : Responses]]

Answer(u) == IF issued[u] = 0 THEN server[u].first ELSE server[u].later

isRedirect(r) == r.status > 299 /\ r.status < 400

LoopCondOffByOne(i) == i <= numRequests
LoopCond(i) == i < numRequests

ExceedsMaxOffByOne(n) == n >= maxRedirects
ExceedsMax(n) == n > maxRedirects

Top == Head(stack)

(* A call of visit returns to the statement after its call site: the end   *)
(* of the caller's loop body, so the caller's i++ runs (main.go:336), or   *)
(* main returns.                                                           *)
Return ==
    IF Len(stack) = 1
    THEN /\ stack' = <<>>
         /\ pc' = "done"
         /\ calls' = calls
    ELSE /\ stack' = <<[stack[2] EXCEPT !.i = @ + 1]>> \o SubSeq(stack, 3, Len(stack))
         /\ pc' = "loop"
         /\ calls' = Tail(calls)

(* The controller's variables other than numRequests while visit is not    *)
(* being followed.                                                         *)
CtlIdle ==
    /\ followRedirects = FALSE
    /\ redirectsFollowed = 0
    /\ stack = <<>>
    /\ pc = "idle"
    /\ resp = NoResp
    /\ fatal = "none"
    /\ server = [u \in URLs |-> [first |-> NoResp, later |-> NoResp]]
    /\ issued = [u \in URLs |-> 0]
    /\ rendered = 0
    /\ lastReport = [url |-> "none", status |-> 0, loc |-> "none"]
    /\ followable = 0
    /\ calls = <<>>

CtlInit ==
    /\ numRequests \in 1..MaxRequests
    /\ TraceIdle
    /\ LessIdle
    /\ followRedirects \in BOOLEAN
    /\ redirectsFollowed = 0
    /\ stack = <<[url |-> InitialURL, i |-> 0]>>
    /\ pc = "loop"
    /\ resp = NoResp
    /\ fatal = "none"
    /\ server \in Servers
    /\ issued = [u \in URLs |-> 0]
    /\ rendered = 0
    /\ lastReport = [url |-> "none", status |-> 0, loc |-> "none"]
    /\ followable = 0
    /\ calls = <<[reqs |-> 0, reports |-> 0]>>
    /\ TemplateIdle

(* One iteration up to the rendered report: main.go:336-432.               *)
DoRequest ==
    /\ pc = "loop" /\ stack # <<>>
    /\ LoopCond(Top.i)
    /\ Answer(Top.url).status # 0
    /\ LET r == Answer(Top.url) IN
        /\ resp' = r
        /\ lastReport' = [url |-> Top.url, status |-> r.status, loc |-> r.loc]
        /\ followable' = IF followRedirects /\ isRedirect(r) /\ r.loc \in URLs
                         THEN followable + 1 ELSE followable
    /\ issued' = [issued EXCEPT ![Top.url] = @ + 1]
    /\ calls' = <<[reqs |-> Head(calls).reqs + 1, reports |-> Head(calls).reports + 1]>>
                 \o Tail(calls)
    /\ rendered' = rendered + 1
    /\ pc' = "handle"
    /\ UNCHANGED <<traceVars, lessVars, tmplVars>>
    /\ UNCHANGED <<numRequests, followRedirects, server, redirectsFollowed, stack, fatal>>

(* client.Do fails: main.go:385-388.                                       *)
DoRequestFails ==
    /\ pc = "loop" /\ stack # <<>>
    /\ LoopCond(Top.i)
    /\ Answer(Top.url).status = 0
    /\ issued' = [issued EXCEPT ![Top.url] = @ + 1]
    /\ calls' = <<[Head(calls) EXCEPT !.reqs = @ + 1]>> \o Tail(calls)
    /\ fatal' = "transport"
    /\ pc' = "fatal"
    /\ UNCHANGED <<traceVars, lessVars, tmplVars>>
    /\ UNCHANGED <<numRequests, followRedirects, server, redirectsFollowed, stack, resp,
                   rendered, lastReport, followable>>

(* main.go:434 false: the loop body ends.                                  *)
NoRedirect ==
    /\ pc = "handle"
    /\ ~(followRedirects /\ isRedirect(resp))
    /\ stack' = <<[Top EXCEPT !.i = @ + 1]>> \o Tail(stack)
    /\ pc' = "loop"
    /\ resp' = NoResp
    /\ UNCHANGED <<traceVars, lessVars, tmplVars>>
    /\ UNCHANGED <<numRequests, followRedirects, server, redirectsFollowed, fatal, issued,
                   rendered, lastReport, followable, calls>>

NoLocationContinue ==
    /\ pc = "handle"
    /\ followRedirects /\ isRedirect(resp)
    /\ resp.loc = "none"
    /\ stack' = <<[Top EXCEPT !.i = @ + 1]>> \o Tail(stack)
    /\ pc' = "loop"
    /\ resp' = NoResp
    /\ UNCHANGED <<traceVars, lessVars, tmplVars>>
    /\ UNCHANGED <<numRequests, followRedirects, server, redirectsFollowed, fatal, issued,
                   rendered, lastReport, followable, calls>>

(* main.go:435-440: http.ErrNoLocation, visit returns.                     *)
NoLocation ==
    /\ pc = "handle"
    /\ followRedirects /\ isRedirect(resp)
    /\ resp.loc = "none"
    /\ Return
    /\ resp' = NoResp
    /\ UNCHANGED <<traceVars, lessVars, tmplVars>>
    /\ UNCHANGED <<numRequests, followRedirects, server, redirectsFollowed, fatal, issued,
                   rendered, lastReport, followable>>

(* main.go:441: any other error of resp.Location().                        *)
BadLocation ==
    /\ pc = "handle"
    /\ followRedirects /\ isRedirect(resp)
    /\ resp.loc = "bad"
    /\ fatal' = "location"
    /\ pc' = "fatal"
    /\ UNCHANGED <<traceVars, lessVars, tmplVars>>
    /\ UNCHANGED <<numRequests, followRedirects, server, redirectsFollowed, stack, resp,
                   issued, rendered, lastReport, followable, calls>>

(* main.go:444-449: count, check the ceiling, recurse.                     *)
Follow ==
    /\ pc = "handle"
    /\ followRedirects /\ isRedirect(resp)
    /\ resp.loc \in URLs
    /\ redirectsFollowed' = redirectsFollowed + 1
    /\ IF ExceedsMax(redirectsFollowed')
       THEN /\ fatal' = "maxRedirects"
            /\ pc' = "fatal"
            /\ UNCHANGED <<stack, resp, calls>>
       ELSE /\ stack' = <<[url |-> resp.loc, i |-> 0]>> \o stack
            /\ calls' = <<[reqs |-> 0, reports |-> 0]>> \o calls
            /\ pc' = "loop"
            /\ resp' = NoResp
            /\ UNCHANGED fatal
    /\ UNCHANGED <<traceVars, lessVars, tmplVars>>
    /\ UNCHANGED <<numRequests, followRedirects, server, issued, rendered, lastReport,
                   followable>>

(* main.go:336 false, 452: the loop is over and visit returns.             *)
LoopExit ==
    /\ pc = "loop" /\ stack # <<>>
    /\ ~LoopCond(Top.i)
    /\ Return
    /\ UNCHANGED <<traceVars, lessVars, tmplVars>>
    /\ UNCHANGED <<numRequests, followRedirects, server, redirectsFollowed, resp, fatal,
                   issued, rendered, lastReport, followable>>

CtlNext ==
    \/ DoRequest
    \/ DoRequestFails
    \/ NoRedirect
    \/ NoLocation
    \/ BadLocation
    \/ Follow
    \/ LoopExit

Spec == CtlInit /\ [][CtlNext]_vars

-----------------------------------------------------------------------------
(***************************************************************************)
(* Properties of visit, checked under Spec.                                *)
(***************************************************************************)

(* The response being handled is one that -L will try to follow.           *)
PendingFollow ==
    IF pc = "handle" /\ followRedirects /\ isRedirect(resp) /\ resp.loc \in URLs
    THEN 1 ELSE 0

(* C1: the redirect counter equals the number of redirect follows          *)
(* attempted so far in the run, over all chains and all -n iterations (a   *)
(* followable response not yet handled is not yet counted); it never       *)
(* passes maxRedirects + 1, and it reaches maxRedirects + 1 exactly when   *)
(* the run has been aborted for too many redirects, in which case every    *)
(* request sent so far was reported and the report printed last is that of *)
(* the redirect response, so no request went to the 11th target.           *)
C1_CounterCountsFollows ==
    /\ redirectsFollowed = followable - PendingFollow
    /\ redirectsFollowed <= maxRedirects + 1
    /\ (fatal = "maxRedirects") <=> (redirectsFollowed = maxRedirects + 1)
    /\ fatal = "maxRedirects" =>
          /\ issued["A"] + issued["B"] = rendered
          /\ lastReport = [url |-> Top.url, status |-> resp.status, loc |-> resp.loc]

(* C1 witness: the run is aborted at the 11th follow during a later -n     *)
(* iteration of the top-level call, the counter having kept the follows of *)
(* the earlier iteration.                                                  *)
C1_Witness ==
    /\ fatal = "maxRedirects"
    /\ redirectsFollowed = 11
    /\ stack[Len(stack)].i >= 1

(* C2: when a call of visit made to follow a redirect returns to its       *)
(* caller, it has issued exactly one exchange against the redirect target. *)
C2_OneExchangePerFollow ==
    [][(Len(stack) > 1 /\ Len(stack') < Len(stack)) => Head(calls).reqs = 1]_vars

(* C3 as stated: a run that ends without a fatal error has performed       *)
(* exactly numRequests iterations against the initial target, one exchange *)
(* and one report each.                                                    *)
C3_ExactlyNumRequests ==
    pc = "done" => /\ calls[1].reqs = numRequests
                   /\ calls[1].reports = numRequests

(* C3 amended: the top-level call never performs more than numRequests     *)
(* iterations, each with one exchange and (once the exchange succeeded)    *)
(* one report; a run that ends without a fatal error has performed         *)
(* exactly numRequests of them, unless -L is set and the initial target    *)
(* answered with a 3xx without Location, which ended the run right after   *)
(* that report.                                                            *)
C3_NumRequestsUnlessNoLocation ==
    LET top == calls[Len(calls)] IN
    /\ top.reqs <= numRequests
    /\ top.reports <= top.reqs
    /\ fatal = "none" => top.reports = top.reqs
    /\ pc = "done" =>
          \/ top.reqs = numRequests
          \/ /\ followRedirects
             /\ lastReport.url = InitialURL
             /\ isRedirect(lastReport)
             /\ lastReport.loc = "none"

(* C3 witness: a run with -n 2 and -L that followed redirects and ended    *)
(* normally after two iterations against the initial target.               *)
C3_Witness ==
    /\ pc = "done"
    /\ numRequests = 2
    /\ followRedirects
    /\ redirectsFollowed > 0
    /\ calls[1].reqs = 2

(* The response handled last was a 3xx without Location under -L, and the  *)
(* call that received it is over.                                          *)
StoppedOnNoLocation ==
    /\ followRedirects
    /\ pc \in {"loop", "done"}
    /\ isRedirect(lastReport)
    /\ lastReport.loc = "none"
    /\ rendered = issued["A"] + issued["B"]

-----------------------------------------------------------------------------
(***************************************************************************)
(* The trace callbacks of one exchange: main.go:336-399, 454-456.          *)
(*                                                                         *)
(* The callbacks are the program's; when they run is the library's         *)
(* (net/http, net/http/httptrace, net).  The library runs GetConn first.   *)
(* A pooled connection is handed over at once (GotConn).  Otherwise it     *)
(* resolves the name (DNSStart, DNSDone; skipped for an address literal)   *)
(* and dials: ConnectStart and ConnectDone run once per connection         *)
(* attempt, and for a dual-stack host the dialer races a primary and a     *)
(* fallback attempt on goroutines of their own.  The dial returns with the *)
(* first attempt that succeeds; the other attempt's ConnectDone runs       *)
(* whenever its goroutine gets there, with an error or without.  Then      *)
(* come the TLS handshake (https), GotConn, GotFirstResponseByte and,      *)
(* back in visit, the reading of the body.                                 *)
(***************************************************************************)

Min(a, b) == IF a < b THEN a ELSE b

(* The clock readings possible once the clock has shown t.                 *)
Later(t) == t..Min(t + MaxStep, MaxClock)

(* msSince, main.go:454-456, given the reading `at` of time.Now().         *)
msSince(t, at) == IF t = 0 THEN maxDurationMs ELSE (at - t) \div TicksPerMs

Wrote(fs) == [f \in Fields |-> IF f \in fs THEN writes[f] + 1 ELSE writes[f]]

InExchange == phase \notin {"idle", "done", "fatal"}

(* The connection fields of a report that are not zero.                    *)
NonZero(r) == {f \in {"DNS", "TCP", "TLS", "Lookup", "Connect", "Address"} : r[f] # 0}

TraceInit ==
    /\ numRequests \in 1..MaxRequests
    /\ CtlIdle
    /\ LessIdle
    /\ scheme \in {"http", "https"}
    /\ iter = 0
    /\ now = 1
    /\ tStart = 0 /\ tDNSStart = 0 /\ tConnectStart = 0
    /\ tTLSStart = 0 /\ tConnected = 0 /\ tTTFB = 0
    /\ report = ZeroReport
    /\ phase = "idle"
    /\ attempts = [r \in Racers |-> "none"]
    /\ idleConn = FALSE
    /\ hops = 0
    /\ fired = {}
    /\ writes = [f \in Fields |-> 0]
    /\ printed = {}
    /\ TemplateIdle

(* main.go:336-343, 383: the sleep between iterations, the fresh locals    *)
(* and the fresh ClientTrace of an iteration.                              *)
BeginIteration ==
    /\ phase = "idle"
    /\ iter < numRequests
    /\ \E t \in Later(now) : now' = t
    /\ tStart' = 0 /\ tDNSStart' = 0 /\ tConnectStart' = 0
    /\ tTLSStart' = 0 /\ tConnected' = 0 /\ tTTFB' = 0
    /\ report' = NewReport
    /\ attempts' = [r \in Racers |-> "none"]
    /\ fired' = {}
    /\ writes' = [f \in Fields |-> 0]
    /\ phase' = "start"
    /\ UNCHANGED <<ctlVars, lessVars, tmplVars>>
    /\ UNCHANGED <<scheme, iter, idleConn, hops, printed>>

(* main.go:345 *)
GetConn ==
    /\ phase = "start"
    /\ \E t \in Later(now) :
        /\ tStart' = t
        /\ now' = t
    /\ fired' = fired \cup {"GetConn"}
    /\ phase' = "getconn"
    /\ UNCHANGED <<ctlVars, lessVars, tmplVars>>
    /\ UNCHANGED <<scheme, iter, tDNSStart, tConnectStart, tTLSStart, tConnected,
                   tTTFB, report, attempts, idleConn, hops, writes, printed>>

(* main.go:346 *)
DNSStart ==
    /\ phase = "getconn"
    /\ \E t \in Later(now) :
        /\ tDNSStart' = t
        /\ now' = t
    /\ fired' = fired \cup {"DNSStart"}
    /\ phase' = "dns"
    /\ UNCHANGED <<ctlVars, lessVars, tmplVars>>
    /\ UNCHANGED <<scheme, iter, tStart, tConnectStart, tTLSStart, tConnected,
                   tTTFB, report, attempts, idleConn, hops, writes, printed>>

(* main.go:347-350 *)
DNSDone ==
    /\ phase = "dns"
    /\ \E t1 \in Later(now) : \E t2 \in Later(t1) :
        /\ report' = [report EXCEPT !.DNS = msSince(tDNSStart, t1),
                                    !.Lookup = msSince(tStart, t2)]
        /\ now' = t2
    /\ writes' = Wrote({"DNS", "Lookup"})
    /\ fired' = fired \cup {"DNSDone"}
    /\ phase' = "resolved"
    /\ UNCHANGED <<ctlVars, lessVars, tmplVars>>
    /\ UNCHANGED <<scheme, iter, tStart, tDNSStart, tConnectStart, tTLSStart,
                   tConnected, tTTFB, attempts, idleConn, hops, printed>>

(* main.go:351-356: the primary attempt starts the dial, the fallback      *)
(* attempt joins while the dial is under way.                              *)
ConnectStart(r) ==
    /\ attempts[r] = "none"
    /\ IF r = "primary" THEN phase \in {"getconn", "resolved"} ELSE phase = "dialing"
    /\ \E t \in Later(now) :
        /\ tConnectStart' = IF tConnectStart = 0 THEN t ELSE tConnectStart
        /\ now' = t
    /\ attempts' = [attempts EXCEPT ![r] = "started"]
    /\ fired' = fired \cup {"ConnectStart"}
    /\ phase' = "dialing"
    /\ UNCHANGED <<ctlVars, lessVars, tmplVars>>
    /\ UNCHANGED <<scheme, iter, tStart, tDNSStart, tTLSStart, tConnected, tTTFB,
                   report, idleConn, hops, writes, printed>>

(* main.go:357-368, err == nil.  The Address is the attempt's: 1 for the   *)
(* primary address, 2 for the fallback address.                            *)
ConnectDone(r) ==
    /\ attempts[r] = "started"
    /\ InExchange
    /\ \E t1 \in Later(now) : \E t2 \in Later(t1) :
        /\ report' = [report EXCEPT !.TCP = msSince(tConnectStart, t1),
                                    !.Connect = msSince(tStart, t2),
                                    !.Address = IF r = "primary" THEN 1 ELSE 2]
        /\ now' = t2
    /\ writes' = Wrote({"TCP", "Connect", "Address"})
    /\ attempts' = [attempts EXCEPT ![r] = "done"]
    /\ fired' = fired \cup {"ConnectDone"}
    /\ phase' = IF phase = "dialing" THEN "connected" ELSE phase
    /\ UNCHANGED <<ctlVars, lessVars, tmplVars>>
    /\ UNCHANGED <<scheme, iter, tStart, tDNSStart, tConnectStart, tTLSStart,
                   tConnected, tTTFB, idleConn, hops, printed>>

(* main.go:358-360, err != nil: log.Fatalf.                                *)
ConnectFails(r) ==
    /\ attempts[r] = "started"
    /\ InExchange
    /\ attempts' = [attempts EXCEPT ![r] = "failed"]
    /\ fired' = fired \cup {"ConnectDone"}
    /\ phase' = "fatal"
    /\ UNCHANGED <<ctlVars, lessVars, tmplVars>>
    /\ UNCHANGED <<scheme, iter, now, tStart, tDNSStart, tConnectStart, tTLSStart,
                   tConnected, tTTFB, report, idleConn, hops, writes, printed>>

(* main.go:369 *)
TLSHandshakeStart ==
    /\ phase = "connected"
    /\ scheme = "https"
    /\ \E t \in Later(now) :
        /\ tTLSStart' = t
        /\ now' = t
    /\ fired' = fired \cup {"TLSHandshakeStart"}
    /\ phase' = "tls"
    /\ UNCHANGED <<ctlVars, lessVars, tmplVars>>
    /\ UNCHANGED <<scheme, iter, tStart, tDNSStart, tConnectStart, tConnected,
                   tTTFB, report, attempts, idleConn, hops, writes, printed>>

(* main.go:370-372 *)
TLSHandshakeDone ==
    /\ phase = "tls"
    /\ \E t \in Later(now) :
        /\ report' = [report EXCEPT !.TLS = msSince(tTLSStart, t)]
        /\ now' = t
    /\ writes' = Wrote({"TLS"})
    /\ fired' = fired \cup {"TLSHandshakeDone"}
    /\ phase' = "secured"
    /\ UNCHANGED <<ctlVars, lessVars, tmplVars>>
    /\ UNCHANGED <<scheme, iter, tStart, tDNSStart, tConnectStart, tTLSStart,
                   tConnected, tTTFB, attempts, idleConn, hops, printed>>

(* The connection is ready: dialled (and secured, for https), or taken     *)
(* from the pool.                                                          *)
ConnReady ==
    \/ phase = "connected" /\ scheme = "http"
    \/ phase = "secured"
    \/ phase = "getconn" /\ idleConn

(* main.go:373-376 *)
GotConn ==
    /\ ConnReady
    /\ \E t1 \in Later(now) : \E t2 \in Later(t1) :
        /\ tConnected' = t1
        /\ report' = [report EXCEPT !.PreTransfer = msSince(tStart, t2)]
        /\ now' = t2
    /\ writes' = Wrote({"PreTransfer"})
    /\ fired' = fired \cup {"GotConn"}
    /\ phase' = "gotconn"
    /\ UNCHANGED <<ctlVars, lessVars, tmplVars>>
    /\ UNCHANGED <<scheme, iter, tStart, tDNSStart, tConnectStart, tTLSStart,
                   tTTFB, attempts, idleConn, hops, printed>>

(* main.go:377-381 *)
GotFirstResponseByte ==
    /\ phase = "gotconn"
    /\ \E t1 \in Later(now) : \E t2 \in Later(t1) : \E t3 \in Later(t2) :
        /\ tTTFB' = t1
        /\ report' = [report EXCEPT !.Server = msSince(tConnected, t2),
                                    !.StartTransfer = msSince(tStart, t3)]
        /\ now' = t3
    /\ writes' = Wrote({"Server", "StartTransfer"})
    /\ fired' = fired \cup {"GotFirstResponseByte"}
    /\ phase' = "firstbyte"
    /\ UNCHANGED <<ctlVars, lessVars, tmplVars>>
    /\ UNCHANGED <<scheme, iter, tStart, tDNSStart, tConnectStart, tTLSStart,
                   tConnected, attempts, idleConn, hops, printed>>

(* main.go:385-432: client.Do returns, the body is read, Transfer and      *)
(* Total are set and the report is printed.  The server may or may not     *)
(* keep the connection alive for the next iteration.                       *)
FinishExchange ==
    /\ phase = "firstbyte"
    /\ \E t1 \in Later(now) : \E t2 \in Later(t1) :
        /\ report' = [report EXCEPT !.Transfer = msSince(tTTFB, t1),
                                    !.Total = msSince(tStart, t2)]
        /\ now' = t2
    /\ writes' = Wrote({"Transfer", "Total"})
    /\ idleConn' \in BOOLEAN
    /\ fired' = fired \cup {"BodyRead"}
    /\ phase' = "done"
    /\ UNCHANGED <<ctlVars, lessVars, tmplVars>>
    /\ UNCHANGED <<scheme, iter, tStart, tDNSStart, tConnectStart, tTLSStart,
                   tConnected, tTTFB, attempts, hops, printed>>

(* main.go:385-388: client.Do returns an error (resolution, handshake,     *)
(* timeout, ...).                                                          *)
ExchangeFails ==
    /\ InExchange
    /\ phase' = "fatal"
    /\ UNCHANGED <<ctlVars, lessVars, tmplVars>>
    /\ UNCHANGED <<scheme, iter, now, tStart, tDNSStart, tConnectStart, tTLSStart,
                   tConnected, tTTFB, report, attempts, idleConn, hops, fired,
                   writes, printed>>

(* main.go:434 false, then i++ of main.go:336.                             *)
EndIteration ==
    /\ phase = "done"
    /\ iter' = iter + 1
    /\ printed' = NonZero(report)
    /\ phase' = "idle"
    /\ UNCHANGED <<ctlVars, lessVars, tmplVars>>
    /\ UNCHANGED <<scheme, now, tStart, tDNSStart, tConnectStart, tTLSStart,
                   tConnected, tTTFB, report, attempts, idleConn, hops, fired, writes>>

(* main.go:434-449, 277-334: the redirect is followed; the new call of     *)
(* visit has a target of its own, a Transport of its own (no pooled        *)
(* connection) and starts its loop at i = 0.                               *)
FollowRedirect ==
    /\ phase = "done"
    /\ hops < MaxHops
    /\ hops' = hops + 1
    /\ scheme' \in {"http", "https"}
    /\ iter' = 0
    /\ idleConn' = FALSE
    /\ printed' = NonZero(report)
    /\ phase' = "idle"
    /\ UNCHANGED <<ctlVars, lessVars, tmplVars>>
    /\ UNCHANGED <<now, tStart, tDNSStart, tConnectStart, tTLSStart, tConnected,
                   tTTFB, report, attempts, fired, writes>>

TraceNext ==
    \/ BeginIteration
    \/ GetConn
    \/ DNSStart
    \/ DNSDone
    \/ \E r \in Racers : ConnectStart(r)
    \/ \E r \in Racers : ConnectDone(r)
    \/ \E r \in Racers : ConnectFails(r)
    \/ TLSHandshakeStart
    \/ TLSHandshakeDone
    \/ GotConn
    \/ GotFirstResponseByte
    \/ FinishExchange
    \/ ExchangeFails
    \/ EndIteration
    \/ FollowRedirect

SpecTrace == TraceInit /\ [][TraceNext]_vars

-----------------------------------------------------------------------------
(***************************************************************************)
(* Properties of the Timing of an exchange, checked under SpecTrace.       *)
(***************************************************************************)

(* C4: the Timing of every completed exchange has non-negative cumulative  *)
(* timestamps with Lookup <= Connect <= PreTransfer <= StartTransfer <=    *)
(* Total.                                                                  *)
C4_TimelineOrdered ==
    phase = "done" =>
        /\ 0 <= report.Lookup
        /\ report.Lookup <= report.Connect
        /\ report.Connect <= report.PreTransfer
        /\ report.PreTransfer <= report.StartTransfer
        /\ report.StartTransfer <= report.Total

(* C5: during one exchange every Timing field and the Address are written  *)
(* at most once.                                                           *)
C5_WrittenAtMostOnce == \A f \in Fields : writes[f] <= 1

(* C6: for every completed https exchange PreTransfer - Connect >= TLS.    *)
C6_PreTransferCoversTLS ==
    (phase = "done" /\ scheme = "https") =>
        report.PreTransfer - report.Connect >= report.TLS

(* The step of the exchange that writes each field.                        *)
WriterOf(f) ==
    CASE f \in {"DNS", "Lookup"} -> "DNSDone"
      [] f \in {"TCP", "Connect", "Address"} -> "ConnectDone"
      [] f = "TLS" -> "TLSHandshakeDone"
      [] f = "PreTransfer" -> "GotConn"
      [] f \in {"Server", "StartTransfer"} -> "GotFirstResponseByte"
      [] f \in {"Transfer", "Total"} -> "BodyRead"

(* The exchange got its connection from the pool.                          *)
Reused == "GotConn" \in fired /\ "ConnectStart" \notin fired

(* C8: in the report of an exchange, from its first callback to its        *)
(* printing, a field whose event has not fired in this exchange is 0,      *)
(* whatever earlier iterations and earlier redirect hops measured: TLS is  *)
(* 0 in every http exchange, and DNS, TCP, TLS, Lookup, Connect (and the   *)
(* Address) are 0 on a reused pooled connection.                           *)
C8_UnfiredFieldsZero ==
    phase # "idle" =>
        /\ \A f \in Fields : WriterOf(f) \notin fired => report[f] = 0
        /\ scheme = "http" => report.TLS = 0
        /\ Reused => \A f \in {"DNS", "TCP", "TLS", "Lookup", "Connect", "Address"} :
                        report[f] = 0

(* C8 witness: the second iteration of an https call has completed on the  *)
(* reused connection, after a first iteration whose printed report had     *)
(* non-zero DNS, TLS, Lookup, Connect and Address.                         *)
C8_Witness ==
    /\ phase = "done"
    /\ scheme = "https"
    /\ iter = 1
    /\ Reused
    /\ {"DNS", "TLS", "Lookup", "Connect", "Address"} \subseteq printed
    /\ report.TLS = 0 /\ report.DNS = 0 /\ report.Connect = 0

-----------------------------------------------------------------------------
(***************************************************************************)
(* headers.Less: main.go:585, 600-636.                                     *)
(*                                                                         *)
(* A header name is a Go string: a sequence of bytes, compared byte by     *)
(* byte.  Names are written here as their byte values.                     *)
(***************************************************************************)

N_Server == <<83, 101, 114, 118, 101, 114>>    \* "Server"
N_Connection == <<67, 111, 110, 110, 101, 99, 116, 105, 111, 110>>    \* "Connection"
N_Keep_Alive == <<75, 101, 101, 112, 45, 65, 108, 105, 118, 101>>    \* "Keep-Alive"
N_Proxy_Authenticate == <<80, 114, 111, 120, 121, 45, 65, 117, 116, 104, 101, 110, 116, 105, 99, 97, 116, 101>>    \* "Proxy-Authenticate"
N_Proxy_Authorization == <<80, 114, 111, 120, 121, 45, 65, 117, 116, 104, 111, 114, 105, 122, 97, 116, 105, 111, 110>>    \* "Proxy-Authorization"
N_TE == <<84, 69>>    \* "TE"
N_Trailers == <<84, 114, 97, 105, 108, 101, 114, 115>>    \* "Trailers"
N_Transfer_Encoding == <<84, 114, 97, 110, 115, 102, 101, 114, 45, 69, 110, 99, 111, 100, 105, 110, 103>>    \* "Transfer-Encoding"
N_Upgrade == <<85, 112, 103, 114, 97, 100, 101>>    \* "Upgrade"
N_Age == <<65, 103, 101>>    \* "Age"
N_Te == <<84, 101>>    \* "Te"
N_Via == <<86, 105, 97>>    \* "Via"

(* The hop-by-hop names of the policy (RFC 2616, 13.5.1).                  *)
HopByHop == {N_Connection, N_Keep_Alive, N_Proxy_Authenticate, N_Proxy_Authorization, N_TE, N_Trailers, N_Transfer_Encoding, N_Upgrade}

(* The names a response may carry in the model: Server, the hop-by-hop     *)
(* names, and end-to-end names before, between and after them.             *)
Names == {N_Server} \cup HopByHop \cup {N_Age, N_Te, N_Via}

(* a < b on Go strings.                                                    *)
RECURSIVE StrLess(_, _)
StrLess(a, b) ==
    IF b = <<>> THEN FALSE
    ELSE IF a = <<>> THEN TRUE
    ELSE IF Head(a) # Head(b) THEN Head(a) < Head(b)
    ELSE StrLess(Tail(a), Tail(b))

(* The closure endtoend of main.go:613-628.                                *)
endtoend(n) ==
    IF n \in {N_Connection, N_Keep_Alive, N_Proxy_Authenticate, N_Proxy_Authorization,
              N_TE, N_Trailers, N_Transfer_Encoding, N_Upgrade}
    THEN FALSE
    ELSE TRUE

LessReturnsY(h, i, j) ==
    LET a == h[i]
        b == h[j]
    IN  IF a = N_Server THEN TRUE
        ELSE IF b = N_Server THEN FALSE
        ELSE LET x == endtoend(a)
                 y == endtoend(b)
             IN  IF x = y THEN StrLess(a, b) ELSE y

(* main.go:602-636 *)
Less(h, i, j) ==
    LET a == h[i]
        b == h[j]
    IN  IF a = N_Server THEN TRUE
        ELSE IF b = N_Server THEN FALSE
        ELSE LET x == endtoend(a)
                 y == endtoend(b)
             IN  IF x = y THEN StrLess(a, b) ELSE x

LessInit ==
    /\ hdrs \in [1..NumHeaders -> Names]
    /\ lessArgs = <<0, 0>>
    /\ lessOut = FALSE
    /\ numRequests = 1
    /\ CtlIdle
    /\ TraceIdle
    /\ TemplateIdle

(* A call h.Less(i, j), as sort.Sort makes them (main.go:415), for any two  *)
(* positions of the slice.                                                 *)
CallLess(i, j) ==
    /\ lessArgs' = <<i, j>>
    /\ lessOut' = Less(hdrs, i, j)
    /\ UNCHANGED hdrs
    /\ UNCHANGED <<ctlVars, traceVars, tmplVars>>

LessNext == \E i, j \in 1..NumHeaders : CallLess(i, j)

SpecLess == LessInit /\ [][LessNext]_vars

-----------------------------------------------------------------------------
(***************************************************************************)
(* Properties of headers.Less, checked under SpecLess.  They are stated    *)
(* of the answer lessOut of a call Less(i, j) on the names a = h[i] and    *)
(* b = h[j], for every slice h, every i and every j.                       *)
(***************************************************************************)

Idx == 1..NumHeaders

Called == lessArgs # <<0, 0>>

CalledA == hdrs[lessArgs[1]]

CalledB == hdrs[lessArgs[2]]

(* If a is less than b and b less than a, they are the same name.          *)
LessAntisymmetric ==
    (lessOut /\ Less(hdrs, lessArgs[2], lessArgs[1])) => CalledA = CalledB

(* If a is less than b and b less than a third name, a is less than it.    *)
LessTransitive ==
    \A k \in Idx : (lessOut /\ Less(hdrs, lessArgs[2], k)) => Less(hdrs, lessArgs[1], k)

(* Server before every other name; every hop-by-hop name after every other *)
(* name; byte order inside a class.                                        *)
LessPolicy ==
    /\ (CalledA = N_Server /\ CalledB # N_Server) => lessOut
    /\ (CalledA # N_Server /\ CalledB = N_Server) => ~lessOut
    /\ (CalledA \notin HopByHop /\ CalledB \in HopByHop) => lessOut
    /\ (CalledA \in HopByHop /\ CalledB \notin HopByHop) => ~lessOut
    /\ (CalledA # N_Server /\ CalledB # N_Server
          /\ (CalledA \in HopByHop <=> CalledB \in HopByHop)) =>
           (lessOut <=> StrLess(CalledA, CalledB))

(* C9 as stated: Less is reflexive, antisymmetric and transitive, puts     *)
(* Server first and hop-by-hop names after end-to-end names, in byte order *)
(* inside each class.                                                      *)
C9_ReflexiveTotalOrder ==
    Called =>
        /\ CalledA = CalledB => lessOut
        /\ LessAntisymmetric
        /\ LessTransitive
        /\ LessPolicy

(* C9 amended: Less is a strict total order over the names other than      *)
(* Server, and Server is below every name (itself included):               *)
(* Less(a, a) holds only for a = Server, Less is antisymmetric and         *)
(* transitive, of two different names exactly one is less than the other,  *)
(* Server sorts before every other name, every hop-by-hop name after every *)
(* end-to-end name, and names of one class in byte order.                  *)
C9_StrictTotalOrder ==
    Called =>
        /\ CalledA = CalledB => (lessOut <=> CalledA = N_Server)
        /\ LessAntisymmetric
        /\ LessTransitive
        /\ CalledA # CalledB => (lessOut \/ Less(hdrs, lessArgs[2], lessArgs[1]))
        /\ LessPolicy

(* C9 witness: Less has been asked whether Connection sorts before Via in  *)
(* a slice that also holds Server, and has answered no.                    *)
C9_Witness ==
    /\ Called
    /\ CalledA = N_Connection
    /\ CalledB = N_Via
    /\ \E k \in Idx : hdrs[k] = N_Server
    /\ lessOut = FALSE

-----------------------------------------------------------------------------
(***************************************************************************)
(* printTemplate: main.go:56-73, 426-431, 458-486.                         *)
(*                                                                         *)
(* A byte is a one-character string; "ESC" stands for the byte 0x1b.  A    *)
(* []byte is a sequence of bytes.  Positions are Go's: the first byte is   *)
(* at 0, and b[lo:hi] holds the bytes at lo .. hi-1.                       *)
(***************************************************************************)

(* main.go:56-64 *)
httpsTemplate == <<
    " ", " ", "D", "N", "S", " ", "L", "o", "o", "k", "u", "p", " ", " ", " ", "T",
    "C", "P", " ", "C", "o", "n", "n", "e", "c", "t", "i", "o", "n", " ", " ", " ",
    "T", "L", "S", " ", "H", "a", "n", "d", "s", "h", "a", "k", "e", " ", " ", " ",
    "S", "e", "r", "v", "e", "r", " ", "P", "r", "o", "c", "e", "s", "s", "i", "n",
    "g", " ", " ", " ", "C", "o", "n", "t", "e", "n", "t", " ", "T", "r", "a", "n",
    "s", "f", "e", "r", "\n", "[", " ", " ", " ", " ", "%", ">", "D", "N", "S", " ",
    " ", "|", " ", " ", " ", " ", " ", " ", " ", " ", " ", "%", ">", "T", "C", "P",
    " ", " ", "|", " ", " ", " ", " ", " ", " ", " ", " ", "%", ">", "T", "L", "S",
    " ", " ", "|", " ", " ", " ", " ", " ", " ", " ", " ", " ", "%", ">", "S", "e",
    "r", "v", "e", "r", " ", " ", "|", " ", " ", " ", " ", " ", " ", "%", ">", "T",
    "r", "a", "n", "s", "f", "e", "r", " ", " ", "]", "\n", " ", " ", " ", " ", " ",
    " ", " ", " ", " ", " ", " ", " ", "|", " ", " ", " ", " ", " ", " ", " ", " ",
    " ", " ", " ", " ", " ", " ", " ", " ", "|", " ", " ", " ", " ", " ", " ", " ",
    " ", " ", " ", " ", " ", " ", " ", " ", "|", " ", " ", " ", " ", " ", " ", " ",
    " ", " ", " ", " ", " ", " ", " ", " ", " ", " ", " ", " ", "|", " ", " ", " ",
    " ", " ", " ", " ", " ", " ", " ", " ", " ", " ", " ", " ", " ", " ", " ", "|",
    "\n", " ", " ", " ", "n", "a", "m", "e", "l", "o", "o", "k", "u", "p", ":", "%",
    "<", "L", "o", "o", "k", "u", "p", " ", " ", " ", " ", " ", " ", " ", "|", " ",
    " ", " ", " ", " ", " ", " ", " ", " ", " ", " ", " ", " ", " ", " ", "|", " ",
    " ", " ", " ", " ", " ", " ", " ", " ", " ", " ", " ", " ", " ", " ", " ", " ",
    " ", " ", "|", " ", " ", " ", " ", " ", " ", " ", " ", " ", " ", " ", " ", " ",
    " ", " ", " ", " ", " ", "|", "\n", " ", " ", " ", " ", " ", " ", " ", " ", " ",
    " ", " ", " ", " ", " ", " ", " ", " ", " ", " ", " ", " ", " ", " ", "c", "o",
    "n", "n", "e", "c", "t", ":", "%", "<", "C", "o", "n", "n", "e", "c", "t", " ",
    " ", " ", " ", " ", "|", " ", " ", " ", " ", " ", " ", " ", " ", " ", " ", " ",
    " ", " ", " ", " ", " ", " ", " ", " ", "|", " ", " ", " ", " ", " ", " ", " ",
    " ", " ", " ", " ", " ", " ", " ", " ", " ", " ", " ", "|", "\n", " ", " ", " ",
    " ", " ", " ", " ", " ", " ", " ", " ", " ", " ", " ", " ", " ", " ", " ", " ",
    " ", " ", " ", " ", " ", " ", " ", " ", " ", " ", " ", " ", " ", " ", " ", " ",
    "p", "r", "e", "t", "r", "a", "n", "s", "f", "e", "r", ":", "%", "<", "P", "r",
    "e", "T", "r", "a", "n", "s", "f", "e", "r", " ", " ", " ", " ", " ", "|", " ",
    " ", " ", " ", " ", " ", " ", " ", " ", " ", " ", " ", " ", " ", " ", " ", " ",
    " ", "|", "\n", " ", " ", " ", " ", " ", " ", " ", " ", " ", " ", " ", " ", " ",
    " ", " ", " ", " ", " ", " ", " ", " ", " ", " ", " ", " ", " ", " ", " ", " ",
    " ", " ", " ", " ", " ", " ", " ", " ", " ", " ", " ", " ", " ", " ", " ", " ",
    " ", " ", " ", " ", " ", " ", " ", " ", "s", "t", "a", "r", "t", "t", "r", "a",
    "n", "s", "f", "e", "r", ":", "%", "<", "S", "t", "a", "r", "t", "T", "r", "a",
    "n", "s", "f", "e", "r", " ", " ", "|", "\n", " ", " ", " ", " ", " ", " ", " ",
    " ", " ", " ", " ", " ", " ", " ", " ", " ", " ", " ", " ", " ", " ", " ", " ",
    " ", " ", " ", " ", " ", " ", " ", " ", " ", " ", " ", " ", " ", " ", " ", " ",
    " ", " ", " ", " ", " ", " ", " ", " ", " ", " ", " ", " ", " ", " ", " ", " ",
    " ", " ", " ", " ", " ", " ", " ", " ", " ", " ", " ", " ", " ", " ", " ", " ",
    " ", " ", " ", " ", " ", " ", " ", " ", " ", "t", "o", "t", "a", "l", ":", "%",
    "<", "T", "o", "t", "a", "l", "\n" >>

(* main.go:66-73 *)
httpTemplate == <<
    " ", " ", "D", "N", "S", " ", "L", "o", "o", "k", "u", "p", " ", " ", " ", "T",
    "C", "P", " ", "C", "o", "n", "n", "e", "c", "t", "i", "o", "n", " ", " ", " ",
    "S", "e", "r", "v", "e", "r", " ", "P", "r", "o", "c", "e", "s", "s", "i", "n",
    "g", " ", " ", " ", "C", "o", "n", "t", "e", "n", "t", " ", "T", "r", "a", "n",
    "s", "f", "e", "r", "\n", "[", " ", " ", " ", " ", "%", ">", "D", "N", "S", " ",
    " ", "|", " ", " ", " ", " ", " ", " ", " ", " ", " ", "%", ">", "T", "C", "P",
    " ", " ", "|", " ", " ", " ", " ", " ", " ", " ", " ", " ", "%", ">", "S", "e",
    "r", "v", "e", "r", " ", " ", "|", " ", " ", " ", " ", " ", " ", "%", ">", "T",
    "r", "a", "n", "s", "f", "e", "r", " ", " ", "]", "\n", " ", " ", " ", " ", " ",
    " ", " ", " ", " ", " ", " ", " ", "|", " ", " ", " ", " ", " ", " ", " ", " ",
    " ", " ", " ", " ", " ", " ", " ", " ", "|", " ", " ", " ", " ", " ", " ", " ",
    " ", " ", " ", " ", " ", " ", " ", " ", " ", " ", " ", " ", "|", " ", " ", " ",
    " ", " ", " ", " ", " ", " ", " ", " ", " ", " ", " ", " ", " ", " ", " ", "|",
    "\n", " ", " ", " ", "n", "a", "m", "e", "l", "o", "o", "k", "u", "p", ":", "%",
    "<", "L", "o", "o", "k", "u", "p", " ", " ", " ", " ", " ", " ", " ", "|", " ",
    " ", " ", " ", " ", " ", " ", " ", " ", " ", " ", " ", " ", " ", " ", " ", " ",
    " ", " ", "|", " ", " ", " ", " ", " ", " ", " ", " ", " ", " ", " ", " ", " ",
    " ", " ", " ", " ", " ", "|", "\n", " ", " ", " ", " ", " ", " ", " ", " ", " ",
    " ", " ", " ", " ", " ", " ", " ", " ", " ", " ", " ", " ", " ", " ", "c", "o",
    "n", "n", "e", "c", "t", ":", "%", "<", "C", "o", "n", "n", "e", "c", "t", " ",
    " ", " ", " ", " ", " ", " ", " ", " ", "|", " ", " ", " ", " ", " ", " ", " ",
    " ", " ", " ", " ", " ", " ", " ", " ", " ", " ", " ", "|", "\n", " ", " ", " ",
    " ", " ", " ", " ", " ", " ", " ", " ", " ", " ", " ", " ", " ", " ", " ", " ",
    " ", " ", " ", " ", " ", " ", " ", " ", " ", " ", " ", " ", " ", " ", " ", " ",
    " ", " ", "s", "t", "a", "r", "t", "t", "r", "a", "n", "s", "f", "e", "r", ":",
    "%", "<", "S", "t", "a", "r", "t", "T", "r", "a", "n", "s", "f", "e", "r", " ",
    " ", "|", "\n", " ", " ", " ", " ", " ", " ", " ", " ", " ", " ", " ", " ", " ",
    " ", " ", " ", " ", " ", " ", " ", " ", " ", " ", " ", " ", " ", " ", " ", " ",
    " ", " ", " ", " ", " ", " ", " ", " ", " ", " ", " ", " ", " ", " ", " ", " ",
    " ", " ", " ", " ", " ", " ", " ", " ", " ", " ", " ", " ", " ", " ", " ", " ",
    " ", " ", " ", "t", "o", "t", "a", "l", ":", "%", "<", "T", "o", "t", "a", "l",
    "\n" >>

(* The names of the Timing fields as bytes.                                *)
FieldName(f) ==
    CASE f = "DNS" -> <<"D", "N", "S">>
      [] f = "TCP" -> <<"T", "C", "P">>
      [] f = "TLS" -> <<"T", "L", "S">>
      [] f = "Server" -> <<"S", "e", "r", "v", "e", "r">>
      [] f = "Transfer" -> <<"T", "r", "a", "n", "s", "f", "e", "r">>
      [] f = "Lookup" -> <<"L", "o", "o", "k", "u", "p">>
      [] f = "Connect" -> <<"C", "o", "n", "n", "e", "c", "t">>
      [] f = "PreTransfer" -> <<"P", "r", "e", "T", "r", "a", "n", "s", "f", "e", "r">>
      [] f = "StartTransfer" -> <<"S", "t", "a", "r", "t", "T", "r", "a", "n", "s", "f", "e", "r">>
      [] f = "Total" -> <<"T", "o", "t", "a", "l">>

LowerCase == {"a", "b", "c", "d", "e", "f", "g", "h", "i", "j", "k", "l", "m", "n", "o", "p", "q", "r", "s", "t", "u", "v", "w", "x", "y", "z"}

UpperCase == {"A", "B", "C", "D", "E", "F", "G", "H", "I", "J", "K", "L", "M", "N", "O", "P", "Q", "R", "S", "T", "U", "V", "W", "X", "Y", "Z"}

Digit == <<"0", "1", "2", "3", "4", "5", "6", "7", "8", "9">>

(* strconv.Itoa *)
RECURSIVE Digits(_)
Digits(n) == IF n < 10 THEN <<Digit[n + 1]>> ELSE Digits(n \div 10) \o <<Digit[(n % 10) + 1]>>

Itoa(n) == IF n < 0 THEN <<"-">> \o Digits(-n) ELSE Digits(n)

(* color.CyanString: the text between the SGR sequences for cyan and for   *)
(* reset, or the text alone when colour is off.                            *)
CyanString(v, plain) ==
    IF plain THEN v
    ELSE <<"ESC", "[", "3", "6", "m">> \o v \o <<"ESC", "[", "0", "m">>

(* b[lo:hi], and whether Go evaluates it without a panic.                  *)
Slice(b, lo, hi) == SubSeq(b, lo + 1, hi)

SliceOK(b, lo, hi) == 0 <= lo /\ lo <= hi /\ hi <= Len(b)

(* bytes.IndexByte(b, c): the first position of c in b, or -1.             *)
IndexByte(b, c) ==
    LET at == {k \in 1..Len(b) : b[k] = c}
    IN  IF at = {} THEN -1 ELSE (CHOOSE k \in at : \A q \in at : k <= q) - 1

(* The loop of main.go:464: end runs over the letters that follow.         *)
RECURSIVE NameEnd(_, _)
NameEnd(b, end) ==
    IF end < Len(b) /\ (b[end + 1] \in LowerCase \/ b[end + 1] \in UpperCase)
    THEN NameEnd(b, end + 1)
    ELSE end

FieldByNameValid(vnam) == \E f \in TimingFields : FieldName(f) = vnam

FieldByName(tv, vnam) == tv[CHOOSE f \in TimingFields : FieldName(f) = vnam]

Repeat(c, n) == [k \in 1..n |-> c]

Returns(b) == [b |-> b, panic |-> "none"]

Panics(b, why) == [b |-> b, panic |-> why]

(* main.go:477 *)
RightAligned(b, idx, end, v, vlen) ==
    IF ~SliceOK(b, 0, end - vlen) \/ ~SliceOK(b, end, Len(b))
    THEN Panics(b, "slice bounds out of range")
    ELSE Returns(Slice(b, 0, end - vlen) \o v \o Slice(b, end, Len(b)))

(* main.go:479 *)
LeftAligned(b, idx, end, v, vlen) ==
    IF ~SliceOK(b, 0, idx) \/ ~SliceOK(b, idx + vlen, Len(b))
    THEN Panics(b, "slice bounds out of range")
    ELSE Returns(Slice(b, 0, idx) \o v \o Slice(b, idx + vlen, Len(b)))

(* One pass of the loop body, main.go:462-483, for the '%' at idx.         *)
Substitute(b, idx, tv, plain) ==
    IF idx + 1 >= Len(b) THEN Panics(b, "index out of range")
    ELSE
    LET dir == b[idx + 2]
        end == NameEnd(b, idx + 2)
        vnam == Slice(b, idx + 2, end)
        blank == Slice(b, 0, idx) \o Repeat(" ", end - idx) \o Slice(b, end, Len(b))
    IN  IF ~FieldByNameValid(vnam) THEN Panics(blank, "invalid template variable")
        ELSE
        LET val == Itoa(FieldByName(tv, vnam)) \o <<"m", "s">>
            vlen == Len(val)
            v == CyanString(val, plain)
        IN  CASE dir = ">" -> RightAligned(blank, idx, end, v, vlen)
              [] dir = "<" -> LeftAligned(blank, idx, end, v, vlen)
              [] OTHER -> Panics(blank, "invalid direction")

(* The loop of main.go:461-484: until b holds no '%'.                      *)
RECURSIVE Fill(_, _, _)
Fill(b, tv, plain) ==
    LET idx == IndexByte(b, "%")
    IN  IF idx = -1 THEN Returns(b)
        ELSE LET r == Substitute(b, idx, tv, plain)
             IN  IF r.panic # "none" THEN r ELSE Fill(r.b, tv, plain)

(* main.go:458-486 *)
printTemplate(t, tv, plain) == Fill(t, tv, plain)

(* The five phase durations the Timing is made of (main.go:349-395).       *)
Phases == {"DNS", "TCP", "TLS", "Server", "Transfer"}

(* Phase durations in ms: of one, four and six digits.                     *)
Durations == {0, 7, 1000, 250000}

(* The Timing of an exchange whose phases took d.                          *)
TimingOf(d) ==
    [f \in TimingFields |->
        CASE f \in Phases -> d[f]
          [] f = "Lookup" -> d["DNS"]
          [] f = "Connect" -> d["DNS"] + d["TCP"]
          [] f = "PreTransfer" -> d["DNS"] + d["TCP"] + d["TLS"]
          [] f = "StartTransfer" -> d["DNS"] + d["TCP"] + d["TLS"] + d["Server"]
          [] f = "Total" -> d["DNS"] + d["TCP"] + d["TLS"] + d["Server"] + d["Transfer"]]

TemplateInit ==
    /\ urlScheme \in {"https", "http"}
    /\ timing \in {TimingOf(d) : d \in {e \in [Phases -> Durations] :
                                          urlScheme = "http" => e["TLS"] = 0}}
    /\ noColor \in BOOLEAN
    /\ stdout = <<>>
    /\ tstate = "ready"
    /\ numRequests = 1
    /\ CtlIdle
    /\ TraceIdle
    /\ LessIdle

(* main.go:426-431 *)
TemplateFor(s) == IF s = "https" THEN httpsTemplate ELSE httpTemplate

(* printTemplate returns: main.go:485 has printed b.                       *)
PrintTemplate ==
    /\ tstate = "ready"
    /\ LET r == printTemplate(TemplateFor(urlScheme), timing, noColor)
       IN  /\ r.panic = "none"
           /\ stdout' = r.b
    /\ tstate' = "printed"
    /\ UNCHANGED <<urlScheme, timing, noColor>>
    /\ UNCHANGED <<ctlVars, traceVars, lessVars>>

(* printTemplate panics: nothing is printed, the process dies.             *)
PrintTemplatePanics ==
    /\ tstate = "ready"
    /\ printTemplate(TemplateFor(urlScheme), timing, noColor).panic # "none"
    /\ tstate' = "panicked"
    /\ UNCHANGED <<urlScheme, timing, noColor, stdout>>
    /\ UNCHANGED <<ctlVars, traceVars, lessVars>>

TemplateNext ==
    \/ PrintTemplate
    \/ PrintTemplatePanics

SpecTemplate == TemplateInit /\ [][TemplateNext]_vars

-----------------------------------------------------------------------------
(***************************************************************************)
(* Properties of printTemplate, checked under SpecTemplate.                *)
(***************************************************************************)

MinOf(S) == CHOOSE k \in S : \A q \in S : k <= q

(* The last position (from 1) of the escape sequence that starts at e.     *)
RECURSIVE EscapeEnd(_, _)
EscapeEnd(s, e) == IF e >= Len(s) \/ s[e] = "m" THEN e ELSE EscapeEnd(s, e + 1)

(* What a terminal shows of s from position p (from 1) on: s without its   *)
(* escape sequences.                                                       *)
RECURSIVE VisibleFrom(_, _)
VisibleFrom(s, p) ==
    LET esc == {k \in p..Len(s) : s[k] = "ESC"}
    IN  IF esc = {} THEN SubSeq(s, p, Len(s))
        ELSE LET e == MinOf(esc)
             IN  SubSeq(s, p, e - 1) \o VisibleFrom(s, EscapeEnd(s, e) + 1)

Visible(s) == VisibleFrom(s, 1)

IsDigit(c) == \E k \in 1..10 : Digit[k] = c

(* The digits of s from position p (from 1) on, up to the first non-digit. *)
RECURSIVE DigitRun(_, _)
DigitRun(s, p) ==
    IF p <= Len(s) /\ IsDigit(s[p]) THEN <<s[p]>> \o DigitRun(s, p + 1) ELSE <<>>

(* The numeric tokens of s, left to right.                                 *)
Tokens(s) ==
    LET starts == {k \in 1..Len(s) : IsDigit(s[k]) /\ (k = 1 \/ ~IsDigit(s[k - 1]))}
        nth(r) == CHOOSE k \in starts : Cardinality({q \in starts : q < k}) = r - 1
    IN  [r \in 1..Cardinality(starts) |-> DigitRun(s, nth(r))]

(* The placeholders of template t: where each starts (Go position of its   *)
(* '%'), where it ends, its direction and its name.                        *)
Placeholders(t) ==
    {[idx |-> k - 1, end |-> NameEnd(t, k + 1), dir |-> t[k + 1],
      name |-> Slice(t, k + 1, NameEnd(t, k + 1))] : k \in {q \in 1..Len(t) : t[q] = "%"}}

(* The placeholders of t by name, in the order of the template.            *)
NamesInOrder(t) ==
    LET ps == Placeholders(t)
        nth(r) == CHOOSE p \in ps : Cardinality({q \in ps : q.idx < p.idx}) = r - 1
    IN  [r \in 1..Cardinality(ps) |-> nth(r).name]

(* Where the value of placeholder p, vlen bytes wide, belongs: from this   *)
(* Go position on.                                                         *)
ValueLo(p, vlen) == IF p.dir = ">" THEN p.end - vlen ELSE p.idx

(* The rendering shown is the rendering of template t with values tv:    *)
(* the numeric tokens are the values in template order, every value sits   *)
(* where its placeholder says, and every other byte is the template's.     *)
Renders(shown, t, tv) ==
    LET ps == Placeholders(t)
        val(p) == Itoa(FieldByName(tv, p.name)) \o <<"m", "s">>
        order == NamesInOrder(t)
    IN  /\ Len(shown) = Len(t)
        /\ Tokens(shown) = [r \in 1..Len(order) |-> Itoa(FieldByName(tv, order[r]))]
        /\ \A p \in ps :
              LET lo == ValueLo(p, Len(val(p)))
              IN  /\ 0 <= lo
                  /\ lo + Len(val(p)) <= Len(shown)
                  /\ Slice(shown, lo, lo + Len(val(p))) = val(p)
        /\ \A k \in 1..Len(t) :
              (\A p \in ps : k <= p.idx \/ k > p.end) => shown[k] = t[k]

(* C10 as stated: with the encrypted-scheme template, printTemplate        *)
(* returns without panic for every assignment of non-negative values, and  *)
(* what it prints shows the ten values in template order, each suffixed    *)
(* "ms", right-aligned values ending at the end of their placeholders,     *)
(* left-aligned values starting at the start of theirs, and no other       *)
(* template character changed.                                             *)
C10_TemplateRenders ==
    (urlScheme = "https" /\ tstate \in {"printed", "panicked"}) =>
        /\ tstate = "printed"
        /\ Renders(Visible(stdout), httpsTemplate, timing)

(* The values of tv are no wider than their placeholders in t.           *)
ValuesFit(t, tv) ==
    \A p \in Placeholders(t) :
        Len(Itoa(FieldByName(tv, p.name))) + 2 <= p.end - p.idx

(* printTemplate renders either template whenever every value is no wider  *)
(* than its placeholder.                                                   *)
RendersWhenValuesFit ==
    (tstate \in {"printed", "panicked"} /\ ValuesFit(TemplateFor(urlScheme), timing)) =>
        /\ tstate = "printed"
        /\ Renders(Visible(stdout), TemplateFor(urlScheme), timing)

(* printTemplate has panicked on the encrypted-scheme template.            *)
TemplatePanicked == urlScheme = "https" /\ tstate = "panicked"

(* printTemplate has returned, and the output does not end in a newline.   *)
NewlineLost ==
    /\ tstate = "printed"
    /\ Visible(stdout)[Len(Visible(stdout))] # "\n"

=============================================================================
